---- MODULE Spec2Model ----
(***************************************************************************)
(* Model of Database.InitTable of go-sqlssx (src/sqlssx.go, and the same   *)
(* routine in src/unnamed/part_000): the schema reconciliation that        *)
(* creates a table from a struct, lists its columns, renames the columns   *)
(* named by sqlRename tags and adds or modifies the columns of the fields. *)
(* The database is a single MySQL table: whether it exists and its set of  *)
(* column names.  One action is one statement (or one loop iteration) of   *)
(* InitTable; the history of the statements of the current call is kept.   *)
(***************************************************************************)
EXTENDS Integers, Sequences, FiniteSets, TLC

\* ------------------------------------------------------------------ bounds

\* Largest number of exported fields of the struct handed to InitTable.
MaxFields == 2

\* Largest number of rows of one column listing whose Scan fails.
MaxScanErrs == 1

\* ------------------------------------------------------------ input domain

\* Field names in declaration order.  Go field names are unique, and the
\* code only compares names for equality, so the k-th field is named
\* FieldNameSeq[k] without loss of generality.
FieldNameSeq == <<"x", "y", "z">>

\* Every column name, field name and sqlRename tag of the model.
Names == {FieldNameSeq[k] : k \in 1..3}

\* The `sql` tag (column type expression) of the field named n.
SqlOf(n) == CASE n = "x" -> "INT" [] n = "y" -> "TEXT" [] OTHER -> "BLOB"

\* A struct field as structs.Field shows it: its name and its three tags.
\* A missing tag reads as "".
FieldOf(k, rename, modify) ==
    [name |-> FieldNameSeq[k], sql |-> SqlOf(FieldNameSeq[k]),
     sqlRename |-> rename, sqlModify |-> modify]

\* Every struct of n fields.
StructsOf(n) ==
    {[k \in 1..n |-> FieldOf(k, t[k][1], t[k][2])] :
        t \in [1..n -> (Names \cup {""}) \X {"", "true"}]}

Structs == UNION {StructsOf(n) : n \in 1..MaxFields}

\* ------------------------------------------------------------------- state

VARIABLES
    fields,        \* structs.Fields(v): the struct of every call
    tableExists,   \* database: the table exists
    columns,       \* database: the column names of the table
    faulty,        \* the connection may still fail transiently
    pc,            \* position of InitTable
    err,           \* the err InitTable returns
    columnNames,   \* the slice read from INFORMATION_SCHEMA.COLUMNS
    sqlRenames,    \* map from sqlRename tag to field name
    idx,           \* position of the rename loop in columnNames
    visited,       \* fields the loop over structs.Names(v) has visited
    issued,        \* statements handed to the database by this call
    openStmts,     \* prepared statements not yet released
    openRows,      \* row cursors not yet closed
    startExists,   \* the table existed when this call began
    startCols,     \* the columns when this call began
    faulted,       \* a transient failure happened in this call
    introFailed,   \* the column listing of this call failed
    prevClean,     \* the previous call began without table and had no fault
    tng,           \* the *TableNameGuide handed to InitTable, or NilGuide
    structName,    \* structs.Name(v)
    tableName,     \* the table name InitTable works with
    named,         \* tableName has been resolved
    version,       \* the file: "plain" (sqlssx.go) or "caching" (part_000)
    schemata,      \* information_schema.schemata: rows per database name
    servers,       \* the Server objects made so far
    serverCatalog, \* serverCatalog: server name -> Server object, 0 is none
    handles,       \* the Database handles opened so far, each with the
                   \* Server object whose call opened it
    last,          \* the last call on the servers and what it returned
    query,         \* a Count / Select / SelectRow call and how its statements fare
    answer         \* what that call returned

vars == <<fields, tableExists, columns, faulty, pc, err, columnNames,
          sqlRenames, idx, visited, issued, openStmts, openRows,
          startExists, startCols, faulted, introFailed, prevClean>>

\* The variables of the table name resolution.
nameVars == <<tng, structName, tableName, named>>

\* The variables of the servers and their databases.
serverVars == <<version, schemata, servers, serverCatalog, handles, last>>

\* The variables of a Count / Select / SelectRow call.
selectVars == <<query, answer>>

\* What a call of InitTable on a table leaves alone.
outsideInitTable == <<nameVars, serverVars, selectVars>>

\* -------------------------------------------------------------- statements

NoStmt == [kind |-> "", col |-> "", to |-> "", sql |-> "", defs |-> <<>>]

\* err == nil
NilErr == [operation |-> "", statement |-> NoStmt, goerr |-> ""]

\* NewError(operation, statement, err)
NewError(operation, statement, goerr) ==
    [operation |-> operation, statement |-> statement, goerr |-> goerr]

\* namesToFields[name]
namesToFields(name) ==
    CHOOSE f \in {fields[k] : k \in 1..Len(fields)} : f.name = name

\* structs.Names(v)
StructNames == [k \in 1..Len(fields) |-> fields[k].name]

FieldNameSet == {fields[k].name : k \in 1..Len(fields)}

\* The sqlRename tags in use.
RenameTags == {fields[k].sqlRename : k \in 1..Len(fields)} \ {""}

\* "CREATE TABLE IF NOT EXISTS `t` (" + strings.Join(columns, ", ") + ")"
CreateStmt ==
    [NoStmt EXCEPT !.kind = "CREATE",
        !.defs = [k \in 1..Len(fields) |-> <<fields[k].name, fields[k].sql>>]]

\* "SELECT column_name FROM INFORMATION_SCHEMA.COLUMNS WHERE ..."
SelectStmt == [NoStmt EXCEPT !.kind = "SELECT"]

\* Variant of ChangeStmt that reads the wrong tag of the field for the type.
ChangeStmtOtherTag(columnName, newName) ==
    [NoStmt EXCEPT !.kind = "CHANGE", !.col = columnName, !.to = newName,
        !.sql = namesToFields(newName).sqlModify]

\* "ALTER TABLE `t` CHANGE COLUMN columnName newName <sql tag of newName>"
ChangeStmt(columnName, newName) ==
    [NoStmt EXCEPT !.kind = "CHANGE", !.col = columnName, !.to = newName,
        !.sql = namesToFields(newName).sql]

\* "ALTER TABLE `t` ADD COLUMN columnName <sql tag>"
AddStmt(columnName) ==
    [NoStmt EXCEPT !.kind = "ADD", !.col = columnName,
        !.sql = namesToFields(columnName).sql]

\* "ALTER TABLE `t` MODIFY columnName <sql tag>"
ModifyStmt(columnName) ==
    [NoStmt EXCEPT !.kind = "MODIFY", !.col = columnName,
        !.sql = namesToFields(columnName).sql]

\* ---------------------------------------------------------------- database

\* MySQL accepts the statement in the present state of the table.
Accepts(s) ==
    CASE s.kind = "CHANGE" ->
            /\ tableExists
            /\ s.col \in columns
            /\ (s.to = s.col \/ s.to \notin columns)
      [] s.kind = "ADD" -> tableExists /\ s.col \notin columns
      [] s.kind = "MODIFY" -> tableExists /\ s.col \in columns
      [] OTHER -> TRUE

\* The columns after the accepted statement.
ColumnsAfter(s) ==
    CASE s.kind = "CREATE" ->
            IF tableExists THEN columns
            ELSE {s.defs[k][1] : k \in 1..Len(s.defs)}
      [] s.kind = "CHANGE" -> (columns \ {s.col}) \cup {s.to}
      [] s.kind = "ADD" -> columns \cup {s.col}
      [] OTHER -> columns

\* What Prepare followed by Exec or Query can come to: "ok", or the call
\* that returned the error.  A rejected statement fails at either call; a
\* faulty connection can fail any statement.
Outcomes(s) ==
    IF Accepts(s)
    THEN {"ok"} \cup (IF faulty THEN {"prepare", "exec"} ELSE {})
    ELSE {"prepare", "exec"}

\* ------------------------------------------------ Prepare / Execute / Query

\* The error value erro that sqlDB.Prepare or the statement's Exec / Query
\* hands back: the server's refusal of the statement, or the lost connection.
DriverErr(s, o) ==
    IF Accepts(s) THEN "driver: bad connection at " \o o
                  ELSE "mysql: statement refused at " \o o

\* Variant of ExecuteErr that builds the error without the statement text.
ExecuteErrNoStatement(s, o) ==
    CASE o = "prepare" -> NewError("SQL Prepare", NoStmt, DriverErr(s, o))
      [] o = "exec" -> NewError("SQL Execute", NoStmt, DriverErr(s, o))
      [] OTHER -> NilErr

\* Database.Execute: the error it returns.
ExecuteErr(s, o) ==
    CASE o = "prepare" -> NewError("SQL Prepare", s, DriverErr(s, o))
      [] o = "exec" -> NewError("SQL Execute", s, DriverErr(s, o))
      [] OTHER -> NilErr

\* Variant of ExecuteOpenStmts that returns on an Exec error before Close().
ExecuteOpenStmtsLeak(o) ==
    LET prepared == o # "prepare"
        closed == prepared /\ o = "ok"
    IN  IF prepared /\ ~closed THEN 1 ELSE 0

\* Database.Execute: prepared statements it leaves open.  Prepare failed:
\* there is none; otherwise sqlStatement.Close() runs on both paths.
ExecuteOpenStmts(o) ==
    LET prepared == o # "prepare"
        closed == prepared
    IN  IF prepared /\ ~closed THEN 1 ELSE 0

\* Database.Query: the error it returns.
QueryErr(s, o) ==
    CASE o = "prepare" -> NewError("SQL Prepare", s, DriverErr(s, o))
      [] o = "exec" -> NewError("SQL Query", s, DriverErr(s, o))
      [] OTHER -> NilErr

\* Database.Query: prepared statements it leaves open.  Close() runs on
\* both paths; with a cursor open the statement is released with the cursor.
QueryOpenStmts(o) ==
    LET prepared == o # "prepare"
        closed == prepared
    IN  IF prepared /\ (~closed \/ o = "ok") THEN 1 ELSE 0

\* Database.Query: row cursors it hands back.
QueryOpenRows(o) == IF o = "ok" THEN 1 ELSE 0

\* ------------------------------------------------------- InitTable, pieces

\* make(map[string]string)
NoRenames == [t \in {} |-> ""]

\* The maps the loop over namesToFields can build: sqlRenames[tag] is a field
\* carrying that tag; with two such fields the map iteration order decides.
RenameMaps ==
    {m \in [RenameTags -> FieldNameSet] :
        \A t \in RenameTags : namesToFields(m[t]).sqlRename = t}

\* newName, ok := sqlRenames[columnName]: ok
IsRenamed(columnName) == columnName \in DOMAIN sqlRenames

\* extdata.StringArrayContains(columnNames, columnName)
StringArrayContains(names, columnName) ==
    \E k \in 1..Len(names) : names[k] = columnName

\* Variant of AddTaken that leaves fields with a sqlRename tag to the rename
\* loop.
AddTakenUnlessRenamed(columnName) ==
    /\ ~StringArrayContains(columnNames, columnName)
    /\ namesToFields(columnName).sqlRename = ""

\* The add branch of the last loop is taken for columnName.
AddTaken(columnName) == ~StringArrayContains(columnNames, columnName)

\* Variant of ModifyTaken that does not look at the sqlModify tag.
ModifyTakenAlways(columnName) ==
    StringArrayContains(columnNames, columnName)

\* The modify branch of the last loop is taken for columnName.
ModifyTaken(columnName) ==
    /\ StringArrayContains(columnNames, columnName)
    /\ namesToFields(columnName).sqlModify = "true"

\* Variant of RemovedColumns with the block "Remove columns" in force: the
\* listed columns that are no field of the struct.
RemovedColumnsIfEnabled ==
    {columnNames[k] : k \in 1..Len(columnNames)} \ (FieldNameSet \cup {""})

\* The columns the block "Remove columns" drops.  The block is commented
\* out ("Removing for safety/security reasons"): none.
RemovedColumns == {}

\* "ALTER TABLE t DROP COLUMN columnName"
DropStmt(columnName) == [NoStmt EXCEPT !.kind = "DROP", !.col = columnName]

\* The history entries of the drops of the columns in S.
RECURSIVE Drops(_)
Drops(S) ==
    IF S = {} THEN <<>>
    ELSE LET c == CHOOSE c \in S : TRUE
         IN  <<[stmt |-> DropStmt(c), ok |-> TRUE]>> \o Drops(S \ {c})

\* if err != nil { return } after CREATE TABLE
CreateReturns(e) == e # NilErr

\* if err != nil { return } after the column query
QueryReturns(e) == e # NilErr

\* if err != nil { return } after CHANGE COLUMN
RenameReturns(e) == e # NilErr

\* Variant of AddReturns that goes on with the next field after an error.
AddNeverReturns(e) == FALSE

\* if err != nil { return } after ADD COLUMN and after MODIFY
AddReturns(e) == e # NilErr

\* Cursors released when the row loop is left: sqlRows.Close() is called
\* after the loop (a cursor whose Next ended on an error has closed itself);
\* the prepared statement of the query is released with its cursor.
RowsReleased(rowsErr) ==
    LET closeCalled == TRUE
    IN  IF closeCalled \/ rowsErr THEN 1 ELSE 0

\* The orders in which the database can list the columns.
RowOrders ==
    {r \in [1..Cardinality(columns) -> columns] :
        \A a, b \in 1..Cardinality(columns) : r[a] = r[b] => a = b}

\* for sqlRows.Next() { sqlRows.Scan(&columnName); append }: the slice after
\* k rows of `rows`, where Scan fails on the rows in `bad` and leaves
\* columnName as it was (first "", then the name of the row before).
RECURSIVE Scanned(_, _, _)
Scanned(rows, k, bad) ==
    IF k = 0 THEN <<>>
    ELSE LET before == Scanned(rows, k - 1, bad)
             columnName ==
                 IF k \notin bad THEN rows[k]
                 ELSE IF k = 1 THEN "" ELSE before[k - 1]
         IN  Append(before, columnName)

\* db.Execute(s) ending as o: what it does to the database, to the history
\* and to the prepared statements.
Executed(s, o) ==
    /\ issued' = Append(issued, [stmt |-> s, ok |-> o = "ok"])
    /\ columns' = IF o = "ok" THEN ColumnsAfter(s) ELSE columns
    /\ tableExists' = (tableExists \/ (o = "ok" /\ s.kind = "CREATE"))
    /\ faulted' = (faulted \/ (o # "ok" /\ Accepts(s)))
    /\ openStmts' = openStmts + ExecuteOpenStmts(o)
    /\ err' = ExecuteErr(s, o)

\* ------------------------------------------------------------------- Init

\* tng == nil
NilGuide == [nil |-> TRUE]

\* No table name is being resolved.
NameAtRest ==
    /\ tng = NilGuide
    /\ structName = ""
    /\ tableName = ""
    /\ named = FALSE

\* Server names and database names of the model.
ServerNames == {"alpha", "beta"}

DbNames == {"main", "shop"}

\* No call on a server has been made.
NoCall ==
    [op |-> "", srv |-> 0, db |-> "", create |-> FALSE, count |-> 0,
     primaryOpen |-> FALSE, clean |-> TRUE, verified |-> FALSE, h |-> 0,
     err |-> NilErr, created |-> FALSE, opened |-> FALSE]

\* var serverCatalog = make(map[string]*Server): no server, no handle.
ServersAtRest ==
    /\ version = "plain"
    /\ schemata = [d \in DbNames |-> 0]
    /\ servers = <<>>
    /\ serverCatalog = [n \in ServerNames |-> 0]
    /\ handles = <<>>
    /\ last = NoCall

\* No Count / Select / SelectRow call is made.
NoQuery == [op |-> ""]

SelectAtRest ==
    /\ query = NoQuery
    /\ answer = NoQuery

\* No call of InitTable has begun.
CallAtRest ==
    /\ pc = "idle"
    /\ err = NilErr
    /\ columnNames = <<>>
    /\ sqlRenames = NoRenames
    /\ idx = 0
    /\ visited = 0
    /\ issued = <<>>
    /\ openStmts = 0
    /\ openRows = 0
    /\ startExists = tableExists
    /\ startCols = columns
    /\ faulted = FALSE
    /\ introFailed = FALSE
    /\ prevClean = FALSE

Init ==
    /\ fields \in Structs
    /\ tableExists \in BOOLEAN
    /\ columns \in SUBSET Names
    /\ (tableExists <=> columns # {})
    /\ faulty \in BOOLEAN
    /\ CallAtRest
    /\ NameAtRest
    /\ ServersAtRest
    /\ SelectAtRest

\* ---------------------------------------------------------------- actions

\* InitTable is called: tableName, namesToFields and columns are built.
StartCall ==
    /\ UNCHANGED outsideInitTable
    /\ pc \in {"idle", "done"}
    /\ pc' = "create"
    /\ err' = NilErr
    /\ columnNames' = <<>>
    /\ sqlRenames' = NoRenames
    /\ idx' = 0
    /\ visited' = 0
    /\ issued' = <<>>
    /\ startExists' = tableExists
    /\ startCols' = columns
    /\ faulted' = FALSE
    /\ introFailed' = FALSE
    /\ prevClean' = (pc = "done" /\ ~startExists /\ ~faulted)
    /\ UNCHANGED <<fields, tableExists, columns, faulty, openStmts, openRows>>

\* _, err = db.Execute("CREATE TABLE IF NOT EXISTS ...")
CreateTable ==
    /\ UNCHANGED outsideInitTable
    /\ pc = "create"
    /\ \E o \in Outcomes(CreateStmt) :
          /\ Executed(CreateStmt, o)
          /\ pc' = IF CreateReturns(ExecuteErr(CreateStmt, o))
                   THEN "done" ELSE "query"
    /\ UNCHANGED <<fields, faulty, columnNames, sqlRenames, idx, visited, openRows,
                   startExists, startCols, introFailed, prevClean>>

\* sqlRows, err := db.Query("SELECT column_name FROM INFORMATION_SCHEMA...")
QueryColumns ==
    /\ UNCHANGED outsideInitTable
    /\ pc = "query"
    /\ \E o \in Outcomes(SelectStmt) :
          /\ issued' = Append(issued, [stmt |-> SelectStmt, ok |-> o = "ok"])
          /\ err' = QueryErr(SelectStmt, o)
          /\ openStmts' = openStmts + QueryOpenStmts(o)
          /\ openRows' = openRows + QueryOpenRows(o)
          /\ faulted' = (faulted \/ o # "ok")
          /\ introFailed' = (o # "ok")
          /\ pc' = IF QueryReturns(QueryErr(SelectStmt, o))
                   THEN "done" ELSE "rows"
    /\ UNCHANGED <<fields, tableExists, columns, faulty, columnNames,
                   sqlRenames, idx, visited, startExists, startCols, prevClean>>

\* The row loop, sqlRows.Close() and the loop that builds sqlRenames.  On a
\* faulty connection Next can stop early on an error (rowsErr) and Scan can
\* fail; neither is looked at by the code.
ReadRows ==
    /\ UNCHANGED outsideInitTable
    /\ pc = "rows"
    /\ \E rows \in RowOrders, k \in 0..Cardinality(columns),
          rowsErr \in BOOLEAN, m \in RenameMaps :
        \E bad \in SUBSET (1..k) :
          /\ Cardinality(bad) <= MaxScanErrs
          /\ k < Cardinality(columns) => rowsErr
          /\ (rowsErr \/ bad # {}) => faulty
          /\ columnNames' = Scanned(rows, k, bad)
          /\ sqlRenames' = m
          /\ faulted' = (faulted \/ rowsErr \/ bad # {})
          /\ introFailed' = (rowsErr \/ bad # {})
          /\ openRows' = openRows - RowsReleased(rowsErr)
          /\ openStmts' = openStmts - RowsReleased(rowsErr)
    /\ idx' = 1
    /\ pc' = "rename"
    /\ UNCHANGED <<fields, tableExists, columns, faulty, err, issued, visited,
                   startExists, startCols, prevClean>>

\* Rename loop: the column is no key of sqlRenames, continue.
RenameSkip ==
    /\ UNCHANGED outsideInitTable
    /\ pc = "rename"
    /\ idx <= Len(columnNames)
    /\ ~IsRenamed(columnNames[idx])
    /\ idx' = idx + 1
    /\ UNCHANGED <<fields, tableExists, columns, faulty, pc, err, columnNames,
                   sqlRenames, visited, issued, openStmts, openRows, startExists,
                   startCols, faulted, introFailed, prevClean>>

\* Rename loop: ALTER TABLE ... CHANGE COLUMN columnName newName ...
RenameColumn ==
    /\ UNCHANGED outsideInitTable
    /\ pc = "rename"
    /\ idx <= Len(columnNames)
    /\ IsRenamed(columnNames[idx])
    /\ LET s == ChangeStmt(columnNames[idx], sqlRenames[columnNames[idx]])
       IN  \E o \in Outcomes(s) :
             /\ Executed(s, o)
             /\ pc' = IF RenameReturns(ExecuteErr(s, o)) THEN "done" ELSE "rename"
    /\ idx' = idx + 1
    /\ UNCHANGED <<fields, faulty, columnNames, sqlRenames, visited, openRows,
                   startExists, startCols, introFailed, prevClean>>

\* The rename loop ends, the (disabled) removal of columns is passed and
\* the loop over structs.Names(v) begins.
RenameDone ==
    /\ UNCHANGED outsideInitTable
    /\ pc = "rename"
    /\ idx > Len(columnNames)
    /\ columns' = columns \ RemovedColumns
    /\ issued' = issued \o Drops(RemovedColumns \cap columns)
    /\ pc' = "add"
    /\ UNCHANGED <<fields, tableExists, faulty, err, columnNames,
                   sqlRenames, idx, visited, openStmts, openRows, startExists,
                   startCols, faulted, introFailed, prevClean>>

\* Last loop: ALTER TABLE ... ADD COLUMN columnName ...
AddColumn ==
    /\ UNCHANGED outsideInitTable
    /\ pc = "add"
    /\ visited < Len(StructNames)
    /\ AddTaken(StructNames[visited + 1])
    /\ LET s == AddStmt(StructNames[visited + 1])
       IN  \E o \in Outcomes(s) :
             /\ Executed(s, o)
             /\ pc' = IF AddReturns(ExecuteErr(s, o)) THEN "done" ELSE "add"
    /\ visited' = visited + 1
    /\ UNCHANGED <<fields, faulty, columnNames, sqlRenames, idx, openRows,
                   startExists, startCols, introFailed, prevClean>>

\* Last loop: ALTER TABLE ... MODIFY columnName ...
ModifyColumn ==
    /\ UNCHANGED outsideInitTable
    /\ pc = "add"
    /\ visited < Len(StructNames)
    /\ ~AddTaken(StructNames[visited + 1])
    /\ ModifyTaken(StructNames[visited + 1])
    /\ LET s == ModifyStmt(StructNames[visited + 1])
       IN  \E o \in Outcomes(s) :
             /\ Executed(s, o)
             /\ pc' = IF AddReturns(ExecuteErr(s, o)) THEN "done" ELSE "add"
    /\ visited' = visited + 1
    /\ UNCHANGED <<fields, faulty, columnNames, sqlRenames, idx, openRows,
                   startExists, startCols, introFailed, prevClean>>

\* Last loop: the column is there and sqlModify is not "true".
AddSkip ==
    /\ UNCHANGED outsideInitTable
    /\ pc = "add"
    /\ visited < Len(StructNames)
    /\ ~AddTaken(StructNames[visited + 1])
    /\ ~ModifyTaken(StructNames[visited + 1])
    /\ visited' = visited + 1
    /\ UNCHANGED <<fields, tableExists, columns, faulty, pc, err, columnNames,
                   sqlRenames, idx, issued, openStmts, openRows, startExists,
                   startCols, faulted, introFailed, prevClean>>

\* The last loop ends: return.
Return ==
    /\ UNCHANGED outsideInitTable
    /\ pc = "add"
    /\ visited >= Len(StructNames)
    /\ pc' = "done"
    /\ UNCHANGED <<fields, tableExists, columns, faulty, err, columnNames,
                   sqlRenames, idx, visited, issued, openStmts, openRows, startExists,
                   startCols, faulted, introFailed, prevClean>>

\* The connection stops failing.
Heal ==
    /\ UNCHANGED outsideInitTable
    /\ faulty
    /\ faulty' = FALSE
    /\ UNCHANGED <<fields, tableExists, columns, pc, err, columnNames,
                   sqlRenames, idx, visited, issued, openStmts, openRows, startExists,
                   startCols, faulted, introFailed, prevClean>>

InitTable ==
    \/ StartCall
    \/ CreateTable
    \/ QueryColumns
    \/ ReadRows
    \/ RenameSkip
    \/ RenameColumn
    \/ RenameDone
    \/ AddColumn
    \/ ModifyColumn
    \/ AddSkip
    \/ Return

Next == InitTable \/ Heal

Spec == Init /\ [][Next]_vars

\* The caller keeps calling InitTable, each call runs to its return, and
\* the connection stops failing at some point.
FairSpec == Spec /\ WF_vars(InitTable) /\ WF_vars(Heal)

\* ------------------------------------------------------------ vocabulary

\* InitTable has returned.
Returned == pc = "done"

\* InitTable has returned nil.
Succeeded == pc = "done" /\ err = NilErr

\* Positions of the statements of kind `kind` this call has issued.
Issued(kind) == {k \in 1..Len(issued) : issued[k].stmt.kind = kind}

\* Positions of the statements that went through.
Passed == {k \in 1..Len(issued) : issued[k].ok}

\* ------------------------------------------------------------------ C1

\* C1: InitTable never drops a column: at every moment of a call, returned
\* or not, with or without error, no DROP statement has been issued, and
\* every column the table had when the call began that is not the sqlRename
\* tag of a field is still a column of the table.
C1_NeverDrops ==
    /\ \A k \in 1..Len(issued) :
          issued[k].stmt.kind \in {"CREATE", "SELECT", "CHANGE", "ADD", "MODIFY"}
    /\ \A c \in startCols : c \notin RenameTags => c \in columns

\* C1 witness: a call has returned on a table that had a column which is
\* neither a field nor a sqlRename tag, after renaming another column.
C1_Witness ==
    /\ Returned
    /\ \E c \in startCols : c \notin FieldNameSet /\ c \notin RenameTags
    /\ Issued("CHANGE") \cap Passed # {}

\* ------------------------------------------------------------------ C2

\* C2: whenever InitTable returns nil, the table exists and every field name
\* is a column of it, whatever the columns at the start and whatever the
\* sqlRename and sqlModify tags (the database rejects ADD COLUMN and CHANGE
\* COLUMN onto a column name that exists).
C2_SuccessHasAllFields ==
    Succeeded => tableExists /\ FieldNameSet \subseteq columns

\* C2 witness: a call on an existing table, with a sqlRename tag in the
\* struct, has added a column and returned nil.
C2_Witness ==
    /\ Succeeded
    /\ startExists
    /\ RenameTags # {}
    /\ Issued("ADD") \cap Passed # {}

\* ------------------------------------------------------------------ C3

\* C3: after InitTable has been called twice in a row, without database
\* fault, on a database where the table did not exist, the columns of the
\* table are exactly the field names and the second call has issued no ADD
\* COLUMN and no CHANGE COLUMN statement.
C3_TwiceFromScratch ==
    (Returned /\ prevClean /\ ~faulted) =>
        /\ columns = FieldNameSet
        /\ Issued("ADD") = {}
        /\ Issued("CHANGE") = {}

\* ------------------------------------------------------------------ C4

\* The field is tagged sqlRename: old, no other field carries that tag, and
\* the call began on a table with column old and without column f.name.
RenameCase(f, old) ==
    /\ old # "" /\ old # f.name
    /\ f.sqlRename = old
    /\ \A k \in 1..Len(fields) : fields[k].sqlRename = old => fields[k] = f
    /\ startExists
    /\ old \in startCols
    /\ f.name \notin startCols

\* The call has issued exactly one CHANGE COLUMN of old, and exactly one
\* onto f.name: CHANGE COLUMN old f.name <sql tag of f>, which was accepted.
OneChange(f, old) ==
    \E c \in Issued("CHANGE") :
        /\ issued[c].ok
        /\ issued[c].stmt =
              [NoStmt EXCEPT !.kind = "CHANGE", !.col = old,
                  !.to = f.name, !.sql = f.sql]
        /\ \A d \in Issued("CHANGE") :
              (issued[d].stmt.col = old \/ issued[d].stmt.to = f.name)
                  => d = c

\* C4 as stated: a call that met no database fault, on a table that had
\* column old_x and no column x, for a field x tagged sqlRename: old_x,
\* returns with column x in the table and old_x not in it, renamed by
\* exactly one CHANGE COLUMN old_x x with the sql tag of x.
C4_RenameFromLegacy ==
    (Returned /\ ~faulted) =>
        \A k \in 1..Len(fields), old \in Names :
            RenameCase(fields[k], old) =>
                /\ fields[k].name \in columns
                /\ old \notin columns
                /\ OneChange(fields[k], old)

\* A CHANGE COLUMN of a column other than old was rejected in this call,
\* which ended the call.
OtherRenameRejected(old) ==
    /\ \E c \in Issued("CHANGE") : issued[c].stmt.col # old /\ ~issued[c].ok
    /\ err # NilErr

\* Another column was renamed to old in this call.
RenamedOnto(old) ==
    \E c \in Issued("CHANGE") \cap Passed : issued[c].stmt.to = old

\* C4 amended: after such a call, either exactly one CHANGE COLUMN old_x x
\* with the sql tag of x was issued and accepted, x is a column, and old_x
\* is a column only if the call renamed another column to old_x; or the
\* CHANGE COLUMN of another column was rejected before old_x was reached,
\* the call returned that error, and the table still has old_x and no x.
C4_RenamedOrAborted ==
    (Returned /\ ~faulted) =>
        \A k \in 1..Len(fields), old \in Names :
            RenameCase(fields[k], old) =>
                \/ /\ OneChange(fields[k], old)
                   /\ fields[k].name \in columns
                   /\ old \in columns => RenamedOnto(old)
                \/ /\ OtherRenameRejected(old)
                   /\ \A c \in Issued("CHANGE") : issued[c].stmt.col # old
                   /\ old \in columns
                   /\ fields[k].name \notin columns

\* C4 witness: such a call has returned, in a struct of several fields,
\* with old_x renamed to x and old_x no column any more.
C4_Witness ==
    /\ Returned /\ ~faulted
    /\ Len(fields) > 1
    /\ \E k \in 1..Len(fields), old \in Names :
          /\ RenameCase(fields[k], old)
          /\ OneChange(fields[k], old)
          /\ old \notin columns

\* ------------------------------------------------------------------ C5

\* C5: a field whose column an accepted CHANGE COLUMN of this call has
\* renamed to the field's name gets no ADD COLUMN in this call, and gets a
\* MODIFY only if it is tagged sqlModify: "true".
C5_RenamedCountsAsPresent ==
    \A c \in Issued("CHANGE") \cap Passed :
        /\ \A a \in Issued("ADD") : issued[a].stmt.col # issued[c].stmt.to
        /\ \A m \in Issued("MODIFY") :
              issued[m].stmt.col = issued[c].stmt.to =>
                  namesToFields(issued[c].stmt.to).sqlModify = "true"

\* ------------------------------------------------------------------ C6

\* C6: a statement of InitTable whose Prepare, Exec or Query returned an
\* error is the last statement of the call: the call has returned, with the
\* error of that statement, and nothing was issued after it (no retry, no
\* compensating statement, no further step).
C6_FirstFailureEnds ==
    \A k \in 1..Len(issued) :
        ~issued[k].ok =>
            /\ k = Len(issued)
            /\ Returned
            /\ err # NilErr
            /\ err.statement = issued[k].stmt

\* C6 witness: a call has returned on a failed statement after an ALTER
\* statement of the same call had gone through.
C6_Witness ==
    /\ Returned
    /\ Len(issued) > 0 /\ ~issued[Len(issued)].ok
    /\ (Issued("CHANGE") \cup Issued("ADD") \cup Issued("MODIFY")) \cap Passed # {}

\* ------------------------------------------------------------------ C7

\* C7: when the column listing of a call has failed (the query, or reading
\* its rows), the call issues no ADD, MODIFY or CHANGE statement and returns
\* an error.
C7_IntrospectionFailureStops ==
    introFailed =>
        /\ Issued("ADD") \cup Issued("MODIFY") \cup Issued("CHANGE") = {}
        /\ Returned => err # NilErr

\* ------------------------------------------------------------------ C8

\* C8: once the connection has stopped failing, a call that returned an
\* error is followed, as InitTable is called again and again with the same
\* struct, by a call that returns nil.
C8_ReinvokeSucceeds ==
    (Returned /\ err # NilErr /\ ~faulty) ~> Succeeded

\* C8, second half: from a call that returned nil on a connection that has
\* stopped failing, every field name is a column whenever a call has
\* returned, and no call issues ADD COLUMN or CHANGE COLUMN.
C8_SettledAfterSuccess ==
    [](Succeeded /\ ~faulty =>
          [](/\ Returned => FieldNameSet \subseteq columns
             /\ Issued("ADD") \cup Issued("CHANGE") = {}))

\* ------------------------------------------------------------------ C9

\* ADD COLUMN (kind "ADD") or MODIFY statements issued for the column name.
For(kind, name) == {k \in Issued(kind) : issued[k].stmt.col = name}

\* CHANGE COLUMN statements that rename a column to the name.
ChangesTo(name) == {k \in Issued("CHANGE") : issued[k].stmt.to = name}

\* The loop over structs.Names(v) has done for its first `visited` fields
\* what the column listing calls for, once each, and nothing for the rest.
AddModifyExact ==
    \A k \in 1..Len(fields) :
        LET name == fields[k].name
            present == StringArrayContains(columnNames, name)
            flagged == fields[k].sqlModify = "true"
        IN  /\ Cardinality(For("ADD", name)) =
                  (IF k <= visited /\ ~present THEN 1 ELSE 0)
            /\ Cardinality(For("MODIFY", name)) =
                  (IF k <= visited /\ present /\ flagged THEN 1 ELSE 0)

\* C9 as stated: a field not tagged sqlModify: "true" whose column was read
\* at the column listing gets no ADD, no MODIFY and no CHANGE; ADD exactly
\* when absent, MODIFY exactly when present and tagged, once per field.
C9_NoAlterForPresentField ==
    /\ AddModifyExact
    /\ Succeeded => visited = Len(fields)
    /\ \A k \in 1..Len(fields) :
          (fields[k].sqlModify # "true"
             /\ StringArrayContains(columnNames, fields[k].name)) =>
                ChangesTo(fields[k].name) = {}

\* C9 amended: such a field gets no ADD and no MODIFY (a CHANGE COLUMN onto
\* its name is issued only for a listed column that is a key of sqlRenames
\* mapped to it); for each field the last loop visits ADD is issued exactly
\* when the name is absent from the listing and MODIFY exactly when it is
\* present and tagged; no field is visited twice, and a call that returns
\* nil has visited every field.
C9_AddModifyOnly ==
    /\ AddModifyExact
    /\ visited <= Len(fields)
    /\ Succeeded => visited = Len(fields)
    /\ \A k \in 1..Len(fields) :
          (fields[k].sqlModify # "true"
             /\ StringArrayContains(columnNames, fields[k].name)) =>
                /\ For("ADD", fields[k].name) = {}
                /\ For("MODIFY", fields[k].name) = {}
                /\ \A c \in ChangesTo(fields[k].name) :
                      /\ StringArrayContains(columnNames, issued[c].stmt.col)
                      /\ issued[c].stmt.col \in DOMAIN sqlRenames
                      /\ sqlRenames[issued[c].stmt.col] = fields[k].name

\* C9 witness: a call has visited every field, one of them untagged with
\* its column listed, and has issued an ADD or a MODIFY for another.
C9_Witness ==
    /\ Returned
    /\ visited = Len(fields)
    /\ \E k \in 1..Len(fields) :
          /\ fields[k].sqlModify # "true"
          /\ StringArrayContains(columnNames, fields[k].name)
    /\ Issued("ADD") \cup Issued("MODIFY") # {}

\* ------------------------------------------------------------------ C10

\* C10: when InitTable is not running (before a call, and after it has
\* returned nil or an error from any step) no prepared statement and no row
\* cursor is open; inside a call at most the one statement and the one
\* cursor of the column listing are.
C10_NoOpenResources ==
    /\ pc \in {"idle", "done"} => openStmts = 0 /\ openRows = 0
    /\ pc = "rows" => openStmts = 1 /\ openRows = 1
    /\ pc \notin {"idle", "done", "rows"} => openStmts = 0 /\ openRows = 0

\* C10 witness: a call has returned an error from a statement that failed
\* at Exec, after the cursor of the column listing had been used.
C10_Witness ==
    /\ Returned
    /\ err.operation = "SQL Execute"
    /\ Issued("SELECT") \cap Passed # {}

\* ------------------------------------------------------------------ C11

\* The CREATE TABLE statement of this call has failed.
CreateFailed ==
    /\ Issued("CREATE") # {}
    /\ \E k \in Issued("CREATE") : ~issued[k].ok

\* C11 as stated: when the CREATE TABLE IF NOT EXISTS statement of InitTable
\* fails, the error InitTable returns wraps the error of the database,
\* carries the text of that statement, and names the failed step with the
\* operation "create table".
C11_CreateTableContext ==
    CreateFailed =>
        /\ Returned
        /\ err.goerr # ""
        /\ err.statement = CreateStmt
        /\ err.operation = "create table"

\* C11 as the code has it: when the CREATE TABLE IF NOT EXISTS statement of
\* InitTable fails, the error InitTable returns wraps the error of the
\* database and carries the text of that statement; its operation is the
\* one Database.Execute gives, "SQL Prepare" or "SQL Execute", and the
\* statement text alone tells that the step was the table creation.
C11_CreateTableError ==
    CreateFailed =>
        /\ Returned
        /\ err.goerr \in {DriverErr(CreateStmt, o) : o \in {"prepare", "exec"}}
        /\ err.statement = CreateStmt
        /\ err.statement.kind = "CREATE"
        /\ err.operation \in {"SQL Prepare", "SQL Execute"}
        /\ (err.operation = "SQL Prepare") <=>
               (err.goerr = DriverErr(CreateStmt, "prepare"))

\* C11 witness: a call has returned the error of its CREATE TABLE
\* statement, which failed when it was executed.
C11_Witness ==
    /\ CreateFailed
    /\ Returned
    /\ err.operation = "SQL Execute"
    /\ err.statement = CreateStmt

\* ------------------------------------------------- table name resolution

\* The TableNameGuide values of the model: every field empty or set.
Guides ==
    [nil : {FALSE}, Glue : {"", "_"}, Pre : {"", "app"},
     Override : {"", "accounts"}, Post : {"", "log"}, Plural : BOOLEAN]

\* structs.Name(v): the name of the struct type handed to InitTable.
StructTypeNames == {"user", "order"}

\* Variant of GetName that appends the plural "s" after the suffix.
GetNamePluralLast(g, inName) ==
    LET o1 == IF Len(g.Override) > 0 THEN g.Override ELSE inName
        o2 == IF Len(g.Pre) > 0 THEN g.Pre \o g.Glue \o o1 ELSE o1
        o3 == IF Len(g.Post) > 0 THEN o2 \o g.Glue \o g.Post ELSE o2
        o4 == IF g.Plural THEN o3 \o "s" ELSE o3
    IN  o4

\* tng.GetName(inName): outName after each of the four statements.
GetName(g, inName) ==
    LET o1 == IF Len(g.Override) > 0 THEN g.Override ELSE inName
        o2 == IF g.Plural THEN o1 \o "s" ELSE o1
        o3 == IF Len(g.Pre) > 0 THEN g.Pre \o g.Glue \o o2 ELSE o2
        o4 == IF Len(g.Post) > 0 THEN o3 \o g.Glue \o g.Post ELSE o3
    IN  o4

\* No table exists and none is being initialized.
NoTable ==
    /\ fields = <<FieldOf(1, "", "")>>
    /\ tableExists = FALSE
    /\ columns = {}
    /\ faulty = FALSE
    /\ CallAtRest

\* InitTable is handed a struct and a guide (or nil); no table is touched.
NameInit ==
    /\ tng \in Guides \cup {NilGuide}
    /\ structName \in StructTypeNames
    /\ tableName = ""
    /\ named = FALSE
    /\ NoTable
    /\ ServersAtRest
    /\ SelectAtRest

\* The first statements of InitTable: tableName is structs.Name(v), passed
\* through tng.GetName when a guide is given.
ResolveName ==
    /\ ~named
    /\ tableName' = IF ~tng.nil THEN GetName(tng, structName) ELSE structName
    /\ named' = TRUE
    /\ UNCHANGED <<tng, structName, vars, serverVars, selectVars>>

NameNext == ResolveName

NameSpec == NameInit /\ [][NameNext]_nameVars

\* ------------------------------------------------------------------ C12

\* C12: the table name is resolved in the order override-or-base, plural,
\* prefix, suffix: it is [Pre + Glue, when Pre is not empty] + (Override
\* when not empty, else the base name) + ["s", when Plural] + [Glue + Post,
\* when Post is not empty]; {Plural, Pre "app", Glue "_"} makes "app_users"
\* of "user", {Override "accounts"} makes "accounts" of "user", and without
\* a guide InitTable takes the base name as it is.
C12_NameOrder ==
    named =>
        /\ tng.nil => tableName = structName
        /\ ~tng.nil =>
               tableName =
                   (IF tng.Pre # "" THEN tng.Pre \o tng.Glue ELSE "")
                   \o (IF tng.Override # "" THEN tng.Override ELSE structName)
                   \o (IF tng.Plural THEN "s" ELSE "")
                   \o (IF tng.Post # "" THEN tng.Glue \o tng.Post ELSE "")
        /\ ( /\ tng = [nil |-> FALSE, Glue |-> "_", Pre |-> "app",
                       Override |-> "", Post |-> "", Plural |-> TRUE]
             /\ structName = "user" ) => tableName = "app_users"
        /\ ( /\ tng = [nil |-> FALSE, Glue |-> "", Pre |-> "",
                       Override |-> "accounts", Post |-> "", Plural |-> FALSE]
             /\ structName = "user" ) => tableName = "accounts"

\* C12 witness: a name has been resolved with every part of the guide set:
\* override, plural, prefix and suffix, glued by "_".
C12_Witness ==
    /\ named
    /\ ~tng.nil
    /\ tng.Pre = "app" /\ tng.Post = "log" /\ tng.Glue = "_"
    /\ tng.Override = "accounts" /\ tng.Plural
    /\ structName = "user"
    /\ tableName = "app_accountss_log"

\* --------------------------------------------------- servers and databases

\* Server objects and Database handles the model lets the program make.
MaxServers == 2

MaxHandles == 3

\* A schemata count above 1, the `count > 1` case of Verify.
AnomalousCount == 2

\* constructSelect(table, countStr, conditions)
CountStmt(table) ==
    [kind |-> "COUNT", col |-> table, to |-> "", sql |-> "", defs |-> <<>>]

\* "CREATE DATABASE IF NOT EXISTS `dbName`"
CreateDbStmt(dbName) ==
    [kind |-> "CREATE DATABASE", col |-> dbName, to |-> "", sql |-> "",
     defs |-> <<>>]

\* openStr of Open
OpenStr(dbName) ==
    [kind |-> "OPEN", col |-> dbName, to |-> "", sql |-> "", defs |-> <<>>]

\* How a COUNT(*) statement sent with QueryRow can end: well, or failing
\* when it is prepared, when it is executed, or when its row is scanned.
CountOutcomes == {"ok", "prepare", "exec", "scan"}

\* How an executed statement can end.
ExecOutcomes == {"ok", "prepare", "exec"}

\* How a statement on handle h can end: on a closed sql.DB Prepare fails.
HandleOutcomes(h, all) == IF handles[h].open THEN all ELSE {"prepare"}

\* How Open can end for a database with `count` schemata rows: sql.Open
\* fails, Ping fails (always, when the database does not exist), or well.
OpenOutcomes(count) ==
    IF count >= 1 THEN {"ok", "open", "ping"} ELSE {"open", "ping"}

\* Open: the error it returns.
OpenErr(dbName, po) ==
    CASE po = "open" -> NewError("DB Open", OpenStr(dbName), "sql: open failed")
      [] po = "ping" -> NewError("DB Ping", NoStmt, "driver: ping failed")
      [] OTHER -> NilErr

\* Database.QueryRow: the error it returns.  Only Prepare can make one; an
\* error of the execution or of the row stays inside the *sql.Row.
QueryRowErr(s, o) ==
    IF o = "prepare" THEN NewError("SQL Prepare", s, DriverErr(s, o))
                     ELSE NilErr

\* Database.Count, the statement ending as o on a table where COUNT(*) is
\* n: count is what sqlRow.Scan(&count) stored, which is nothing when the
\* row carries an error; the error Scan returns is not looked at.
Count(table, o, n) ==
    LET qerr == QueryRowErr(CountStmt(table), o)
        count == IF o = "ok" THEN n ELSE 0
    IN  IF qerr # NilErr THEN [count |-> 0, err |-> qerr]
                         ELSE [count |-> count, err |-> NilErr]

\* Server.Verify(dbName), n being the schemata rows of dbName.  The named
\* result `verified` starts as false; no branch assigns true to it.
Verify(o, n) ==
    LET c == Count("information_schema.schemata", o, n)
        verified == FALSE
    IN  IF c.err # NilErr THEN [verified |-> verified, err |-> c.err]
        ELSE IF c.count = 0 THEN [verified |-> FALSE, err |-> NilErr]
        ELSE IF c.count > 1
             THEN [verified |-> FALSE,
                   err |-> NewError("DB Verify", NoStmt,
                                    "Invalid database count?")]
        ELSE [verified |-> verified, err |-> NilErr]

\* What a path through Connect comes to: the error, the handle found in
\* dbCatalog (0: none), whether Open made a new handle, whether CREATE
\* DATABASE went through, what Verify said, whether every statement and
\* connection attempt went well, and whether the path can be taken.
ConnectReturn(e, hit, opens, created, verified, clean, feasible) ==
    [err |-> e, hit |-> hit, opens |-> opens, created |-> created,
     verified |-> verified, clean |-> clean, feasible |-> feasible]

\* Server.Connect(dbName, ..., create) on the server object s, its count
\* statement ending as o, its CREATE DATABASE as oc and its Open as po.
ConnectSteps(s, dbName, create, o, oc, po) ==
    LET hit == IF version = "caching" THEN s.dbCatalog[dbName] ELSE 0
        v == Verify(o, schemata[dbName])
        canCount == o \in HandleOutcomes(s.dbPrimary, CountOutcomes)
        rows == IF schemata[dbName] = 0 THEN 1 ELSE schemata[dbName]
        opened(created, clean) ==
            ConnectReturn(OpenErr(dbName, po), 0, po = "ok", created,
                          v.verified, clean /\ po = "ok",
                          canCount /\ po \in OpenOutcomes(
                              IF created THEN rows ELSE schemata[dbName]))
    IN  IF s.dbPrimary = 0
        THEN ConnectReturn(NewError("DB Connect", NoStmt,
                                    "Primary Database not set"),
                           0, FALSE, FALSE, FALSE, TRUE, TRUE)
        ELSE IF hit # 0
        THEN ConnectReturn(NilErr, hit, FALSE, FALSE, FALSE, TRUE, TRUE)
        ELSE IF v.err # NilErr
        THEN ConnectReturn(v.err, 0, FALSE, FALSE, FALSE, FALSE, canCount)
        ELSE IF ~v.verified
        THEN IF create
             THEN IF oc # "ok"
                  THEN ConnectReturn(ExecuteErr(CreateDbStmt(dbName), oc),
                                     0, FALSE, FALSE, FALSE, FALSE, canCount)
                  ELSE opened(TRUE, o = "ok")
             ELSE ConnectReturn(NewError("DB Connect", NoStmt,
                                         "Database not found"),
                                0, FALSE, FALSE, FALSE, o = "ok", canCount)
        ELSE opened(FALSE, o = "ok")

\* Every way Connect can go on the server object s: the statements and the
\* connection attempt it gets to, in each way they can end.
ConnectPaths(s, dbName, create) ==
    LET asks == /\ s.dbPrimary # 0
                /\ ~(version = "caching" /\ s.dbCatalog[dbName] # 0)
        os == IF asks THEN HandleOutcomes(s.dbPrimary, CountOutcomes)
                      ELSE {"ok"}
        ocs == IF asks /\ create THEN ExecOutcomes ELSE {"ok"}
        pos == IF asks THEN {"ok", "open", "ping"} ELSE {"ok"}
    IN  {ConnectSteps(s, dbName, create, o, oc, po) :
            o \in os, oc \in ocs, po \in pos}

\* The program starts: no server, no handle; the MySQL server has its
\* databases.
ServerInit ==
    /\ version \in {"plain", "caching"}
    /\ schemata \in [DbNames -> 0..AnomalousCount]
    /\ servers = <<>>
    /\ serverCatalog = [n \in ServerNames |-> 0]
    /\ handles = <<>>
    /\ last = NoCall
    /\ NoTable
    /\ NameAtRest
    /\ SelectAtRest

\* NewServer(name, port, dbName, ...).  sqlssx.go opens the primary first
\* and makes and registers the server only when that went well; part_000
\* registers the server first, Open puts the handle into its dbCatalog, and
\* a failed Open leaves the server registered without primary.
NewServer ==
    /\ UNCHANGED <<vars, nameVars, selectVars>>
    /\ Len(servers) < MaxServers
    /\ \E name \in ServerNames, dbName \in DbNames :
       \E po \in OpenOutcomes(schemata[dbName]) :
          LET ok == po = "ok"
              h == Len(handles) + 1
              this == Len(servers) + 1
              made == version = "caching" \/ ok
          IN  /\ ok => Len(handles) < MaxHandles
              /\ handles' = IF ok
                            THEN Append(handles, [db |-> dbName, srv |-> this,
                                                  open |-> TRUE])
                            ELSE handles
              /\ servers' =
                     IF made
                     THEN Append(servers,
                              [name |-> name,
                               dbPrimary |-> IF ok THEN h ELSE 0,
                               dbCatalog |->
                                   [d \in DbNames |->
                                       IF ok /\ d = dbName THEN h ELSE 0]])
                     ELSE servers
              /\ serverCatalog' = IF made
                                  THEN [serverCatalog EXCEPT ![name] = this]
                                  ELSE serverCatalog
              /\ last' = [NoCall EXCEPT !.op = "NewServer",
                             !.srv = IF made THEN this ELSE 0,
                             !.db = dbName, !.count = schemata[dbName],
                             !.clean = ok, !.h = IF ok THEN h ELSE 0,
                             !.err = OpenErr(dbName, po), !.opened = ok]
              /\ UNCHANGED <<version, schemata>>

\* server.Connect(dbName, ..., create) on a Server object the program
\* holds.  In part_000 Open puts the new handle into the dbCatalog of the
\* server that serverCatalog has under the server's name.
Connect ==
    /\ UNCHANGED <<vars, nameVars, selectVars>>
    /\ \E srv \in 1..Len(servers), dbName \in DbNames, create \in BOOLEAN :
       \E r \in ConnectPaths(servers[srv], dbName, create) :
          LET s == servers[srv]
              h == Len(handles) + 1
          IN  /\ r.feasible
              /\ r.opens => Len(handles) < MaxHandles
              /\ schemata' = IF r.created /\ schemata[dbName] = 0
                             THEN [schemata EXCEPT ![dbName] = 1]
                             ELSE schemata
              /\ handles' = IF r.opens
                            THEN Append(handles, [db |-> dbName, srv |-> srv,
                                                  open |-> TRUE])
                            ELSE handles
              /\ servers' =
                     IF r.opens /\ version = "caching"
                     THEN [servers EXCEPT
                              ![serverCatalog[s.name]].dbCatalog[dbName] = h]
                     ELSE servers
              /\ last' = [op |-> "Connect", srv |-> srv, db |-> dbName,
                          create |-> create, count |-> schemata[dbName],
                          primaryOpen |-> IF s.dbPrimary = 0 THEN FALSE
                                          ELSE handles[s.dbPrimary].open,
                          clean |-> r.clean, verified |-> r.verified,
                          h |-> IF r.opens THEN h ELSE r.hit,
                          err |-> r.err, created |-> r.created,
                          opened |-> r.opens]
              /\ UNCHANGED <<version, serverCatalog>>

\* server.Verify(dbName) on a server that has a primary database.
VerifyDb ==
    /\ UNCHANGED <<vars, nameVars, selectVars>>
    /\ \E srv \in 1..Len(servers), dbName \in DbNames, o \in CountOutcomes :
          LET s == servers[srv]
              v == Verify(o, schemata[dbName])
          IN  /\ s.dbPrimary # 0
              /\ o \in HandleOutcomes(s.dbPrimary, CountOutcomes)
              /\ last' = [NoCall EXCEPT !.op = "Verify", !.srv = srv,
                             !.db = dbName, !.count = schemata[dbName],
                             !.primaryOpen = handles[s.dbPrimary].open,
                             !.clean = (o = "ok"),
                             !.verified = v.verified, !.err = v.err]
              /\ UNCHANGED <<version, schemata, servers, serverCatalog,
                             handles>>

\* The handles after db.sqlDB.Close() on every handle of the dbCatalog of
\* each server of the set.
ClosedBy(srvs) ==
    [h \in DOMAIN handles |->
        IF \E i \in srvs, d \in DbNames : servers[i].dbCatalog[d] = h
        THEN [handles[h] EXCEPT !.open = FALSE]
        ELSE handles[h]]

\* server.Close() on a Server object the program holds.
ServerClose ==
    /\ UNCHANGED <<vars, nameVars, selectVars>>
    /\ \E srv \in 1..Len(servers) :
          /\ handles' = ClosedBy({srv})
          /\ last' = [NoCall EXCEPT !.op = "Server.Close", !.srv = srv]
          /\ UNCHANGED <<version, schemata, servers, serverCatalog>>

\* Close(): server.Close() for every server of serverCatalog.
Close ==
    /\ UNCHANGED <<vars, nameVars, selectVars>>
    /\ handles' = ClosedBy({serverCatalog[n] : n \in ServerNames} \ {0})
    /\ last' = [NoCall EXCEPT !.op = "Close"]
    /\ UNCHANGED <<version, schemata, servers, serverCatalog>>

ServerNext ==
    \/ NewServer
    \/ Connect
    \/ VerifyDb
    \/ ServerClose
    \/ Close

ServerSpec == ServerInit /\ [][ServerNext]_serverVars

\* ------------------------------------------------------------------ C13

\* The last call was Connect on a server whose primary database is open,
\* for a database with at most one schemata row, and no statement and no
\* connection attempt of the call met a failure of the MySQL server.
CleanConnect ==
    /\ last.op = "Connect"
    /\ last.primaryOpen
    /\ last.clean
    /\ last.count <= 1

\* Connect returned the "Database [..] not found" error.
NotFound == last.err.operation = "DB Connect" /\ last.err.goerr = "Database not found"

\* C13: Connect creates the database only if it does not exist and create
\* is true: it returns the "not found" error exactly when the database does
\* not exist and create is false; when the database exists a handle is
\* returned with a nil error whatever create is; and CREATE DATABASE is
\* executed only when the database is absent.
C13_ConnectCreatesOnlyIfAbsent ==
    CleanConnect =>
        /\ NotFound <=> (last.count = 0 /\ ~last.create)
        /\ last.count = 1 => (last.err = NilErr /\ last.h # 0)
        /\ last.created => last.count = 0

\* ------------------------------------------------------------------ C14

\* C14: Verify returns true and no error exactly when the schemata count of
\* the name is 1, false and no error when it is 0, and false with a
\* "DB Verify" error when it is greater than 1.
C14_VerifyByCount ==
    (last.op = "Verify" /\ last.primaryOpen /\ last.clean) =>
        /\ (last.verified /\ last.err = NilErr) <=> last.count = 1
        /\ last.count = 0 => (~last.verified /\ last.err = NilErr)
        /\ last.count > 1 =>
               (~last.verified /\ last.err.operation = "DB Verify")

\* ------------------------------------------------------------------ C15

\* The handle is in the dbCatalog of a server of serverCatalog.
Registered(h) ==
    \E n \in ServerNames, d \in DbNames :
        /\ serverCatalog[n] # 0
        /\ servers[serverCatalog[n]].dbCatalog[d] = h

\* C15: every open handle is within reach of serverCatalog and the
\* dbCatalog of its servers, so that when Close() has run, every handle
\* that NewServer and Connect opened is closed.
C15_CloseClosesEveryHandle ==
    /\ \A h \in DOMAIN handles : handles[h].open => Registered(h)
    /\ last.op = "Close" => \A h \in DOMAIN handles : ~handles[h].open

\* ------------------------------------------------------------------ C16

\* C16: in part_000 a handle that Connect returns with a nil error is open,
\* and Connect opens at most one connection per database name on a Server
\* object: a later Connect for the name returns the handle of the first.
C16_ConnectReturnsOpenHandle ==
    version = "caching" =>
        /\ (last.op = "Connect" /\ last.err = NilErr) =>
               (last.h # 0 /\ handles[last.h].open)
        /\ \A h1, h2 \in DOMAIN handles :
               (handles[h1].srv = handles[h2].srv
                   /\ handles[h1].db = handles[h2].db) => h1 = h2

\* ------------------------------------------------ Count, Select, SelectRow

\* Rows of the table that meet the conditions of a call.
MaxRows == 2

\* constructSelect(table, columns, conditions)
RowsStmt(table) ==
    [kind |-> "SELECT ROWS", col |-> table, to |-> "", sql |-> "",
     defs |-> <<>>]

\* A call of Count, Select or SelectRow on an open database: the rows that
\* meet its conditions, how its COUNT(*) statement ends (co) and how the
\* statement for the rows would end (ro).
Queries ==
    [op : {"Count", "Select", "SelectRow"}, rows : 0..MaxRows,
     co : CountOutcomes, ro : ExecOutcomes]

\* What a call returns: count, exists, whether sqlRows / sqlRow is not nil,
\* the error, and the statements the call has sent.
Answer(op, count, exists, rows, e, sent) ==
    [op |-> op, count |-> count, exists |-> exists, rows |-> rows,
     err |-> e, sent |-> sent]

\* Database.Select, what it returns.
Select(q) ==
    LET c == Count("t", q.co, q.rows)
        qerr == QueryErr(RowsStmt("t"), q.ro)
    IN  IF c.err # NilErr \/ c.count = 0
        THEN Answer("Select", c.count, FALSE, FALSE, c.err, <<"COUNT">>)
        ELSE Answer("Select", c.count, FALSE, qerr = NilErr, qerr,
                    <<"COUNT", "SELECT ROWS">>)

\* Database.SelectRow, what it returns.
SelectRow(q) ==
    LET c == Count("t", q.co, q.rows)
        qerr == QueryRowErr(RowsStmt("t"), q.ro)
    IN  IF c.err # NilErr \/ c.count = 0
        THEN Answer("SelectRow", 0, FALSE, FALSE, c.err, <<"COUNT">>)
        ELSE Answer("SelectRow", 0, TRUE, qerr = NilErr, qerr,
                    <<"COUNT", "SELECT ROWS">>)

\* A call is about to be made; no server object and no table is involved.
SelectInit ==
    /\ query \in Queries
    /\ answer = NoQuery
    /\ NoTable
    /\ NameAtRest
    /\ ServersAtRest

\* db.Count(table, conditions, args...) returns.
CountCall ==
    /\ UNCHANGED <<vars, nameVars, serverVars, query>>
    /\ query.op = "Count"
    /\ answer = NoQuery
    /\ LET c == Count("t", query.co, query.rows)
       IN  answer' = Answer("Count", c.count, FALSE, FALSE, c.err, <<"COUNT">>)

\* db.Select(table, columns, conditions, args...) returns.
SelectCall ==
    /\ UNCHANGED <<vars, nameVars, serverVars, query>>
    /\ query.op = "Select"
    /\ answer = NoQuery
    /\ answer' = Select(query)

\* db.SelectRow(table, columns, conditions, args...) returns.
SelectRowCall ==
    /\ UNCHANGED <<vars, nameVars, serverVars, query>>
    /\ query.op = "SelectRow"
    /\ answer = NoQuery
    /\ answer' = SelectRow(query)

SelectNext ==
    \/ CountCall
    \/ SelectCall
    \/ SelectRowCall

SelectSpec == SelectInit /\ [][SelectNext]_selectVars

\* ------------------------------------------------------------------ C17

\* C17: Count, and Select and SelectRow which call it first, return an
\* error whenever the COUNT(*) statement fails, at prepare, at execute or
\* at scan: a failed count is never returned as count 0 with a nil error
\* (nil rows from Select, exists = false from SelectRow, without error); and
\* the statement for the rows is sent only when the count is above 0 and no
\* error occurred.
C17_FailedCountIsAnError ==
    answer # NoQuery =>
        /\ query.co # "ok" => answer.err # NilErr
        /\ Len(answer.sent) > 1 => (query.co = "ok" /\ query.rows > 0)

====
